---- MODULE Spec2Model ----
(***************************************************************************)
(* Weekly production and shipment planning of the cola simulator, in its   *)
(* two source variants: src/app.py ("app") and src/app2.py ("app2").       *)
(* One behaviour of the model is one iteration of the per-week loop: the   *)
(* row (week, demand_vec) and, for app.py whose functions take them as     *)
(* parameters, the constraints (cap, ss, truck_sz) are the inputs; the     *)
(* actions are the three stages of the loop body.                          *)
(* Quantities are bottles.  Python evaluates d * scaling * priority in     *)
(* IEEE-754 double precision; the model computes the same doubles          *)
(* (section "doubles" below), so int() truncates what the code truncates.  *)
(***************************************************************************)
EXTENDS Integers, Sequences, FiniteSets

(***************************************************************************)
(* Doubles.  A double is [neg |-> sign, m |-> mantissa, e |-> exponent],   *)
(* value (-1)^neg * m * 2^e, the mantissa an exact natural number below    *)
(* 2^54 held as MantLimbs little-endian digits in base LimbBase.  Every    *)
(* arithmetic result is rounded to 53 significant bits, ties to even, as   *)
(* the hardware does; rounding is on the magnitude, the sign is that of    *)
(* the exact result (zeros are signed).  Magnitudes here stay far from     *)
(* overflow and subnormals.                                                *)
(***************************************************************************)
\* significant bits of a double
MantBits == 53

\* bits per digit of the mantissa representation
LimbBits == 10

RECURSIVE Pow2(_)
Pow2(n) == IF n = 0 THEN 1 ELSE 2 * Pow2(n - 1)

LimbBase == Pow2(LimbBits)

\* digits that hold a mantissa (one spare bit for a carry out of rounding)
MantLimbs == (MantBits \div LimbBits) + 1

\* zero digits a division appends to its dividend, so the quotient has bits to round
DivShiftLimbs == MantLimbs + 2

Min(a, b) == IF a <= b THEN a ELSE b

Max(a, b) == IF a >= b THEN a ELSE b

Abs(n) == IF n < 0 THEN 0 - n ELSE n

\* a list comprehension: the function as the sequence of its values
List(f) == f \o <<>>

\* digit j of a digit sequence, 0 beyond its end
Limb(big, j) == IF j >= 1 /\ j <= Len(big) THEN big[j] ELSE 0

\* the digits of a natural number below 2^31
RECURSIVE NatLimbs(_, _)
NatLimbs(n, k) ==
  IF k = 0 THEN <<>> ELSE <<n % LimbBase>> \o NatLimbs(n \div LimbBase, k - 1)

\* the natural number a digit sequence holds (used only below 2^31)
RECURSIVE LimbsNat(_, _)
LimbsNat(big, j) ==
  IF j > Len(big) \/ (\A i \in j..Len(big) : big[i] = 0) THEN 0
  ELSE big[j] + LimbBase * LimbsNat(big, j + 1)

RECURSIVE Carry(_, _, _)
Carry(raw, i, c) ==
  IF i > Len(raw) THEN <<>>
  ELSE LET t == raw[i] + c
       IN  <<t % LimbBase>> \o Carry(raw, i + 1, t \div LimbBase)

RECURSIVE SumProd(_, _, _, _)
SumProd(a, b, k, i) ==
  IF i > Min(Len(a), k) THEN 0
  ELSE a[i] * Limb(b, k + 1 - i) + SumProd(a, b, k, i + 1)

\* exact product of two digit sequences
BigMul(a, b) ==
  Carry(List([k \in 1..(Len(a) + Len(b)) |-> SumProd(a, b, k, Max(1, k + 1 - Len(b)))]),
        1, 0)

RECURSIVE LimbBitLen(_)
LimbBitLen(x) == IF x = 0 THEN 0 ELSE 1 + LimbBitLen(x \div 2)

RECURSIVE TopLimb(_, _)
TopLimb(big, j) == IF j = 0 \/ big[j] # 0 THEN j ELSE TopLimb(big, j - 1)

BitLen(big) ==
  LET j == TopLimb(big, Len(big))
  IN  IF j = 0 THEN 0 ELSE (j - 1) * LimbBits + LimbBitLen(big[j])

\* bit k (from 0) of a digit sequence
BitAt(big, k) == (Limb(big, (k \div LimbBits) + 1) \div Pow2(k % LimbBits)) % 2

\* some bit below bit k is set
LowBitsSet(big, k) ==
  \/ \E i \in 1..(k \div LimbBits) : Limb(big, i) # 0
  \/ Limb(big, (k \div LimbBits) + 1) % Pow2(k % LimbBits) # 0

\* big shifted right by n bits, the low MantLimbs digits of the result
ShiftRight(big, n) ==
  LET q == n \div LimbBits
      r == n % LimbBits
      lo == Pow2(r)
      hi == Pow2(LimbBits - r)
  IN  List([i \in 1..MantLimbs |->
         (Limb(big, i + q) \div lo) + (Limb(big, i + q + 1) % lo) * hi])

\* round the exact magnitude big * 2^e (plus a nonzero tail when sticky) to 53 bits
RoundToDouble(big, sticky, e) ==
  LET L == BitLen(big)
      n == L - MantBits
  IN  IF n <= 0 THEN [m |-> ShiftRight(big, 0), e |-> e]
      ELSE LET t    == ShiftRight(big, n)
               half == BitAt(big, n - 1) = 1
               tail == sticky \/ LowBitsSet(big, n - 1)
               up   == half /\ (tail \/ t[1] % 2 = 1)
           IN  [m |-> IF up THEN Carry(t, 1, 1) ELSE t, e |-> e + n]

\* int -> double (exact below 2^31 in magnitude)
FromInt(n) == [neg |-> n < 0, m |-> NatLimbs(Abs(n), MantLimbs), e |-> 0]

\* x * y on doubles
FMul(x, y) ==
  LET r == RoundToDouble(BigMul(x.m, y.m), FALSE, x.e + y.e)
  IN  [neg |-> x.neg # y.neg, m |-> r.m, e |-> r.e]

\* long division of a digit sequence by t, from digit i down; <<quotient, remainder>>
RECURSIVE LongDiv(_, _, _, _)
LongDiv(num, i, r, t) ==
  IF i = 0 THEN <<<<>>, r>>
  ELSE LET cur  == r * LimbBase + num[i]
           rest == LongDiv(num, i - 1, cur % t, t)
       IN  <<rest[1] \o <<cur \div t>>, rest[2]>>

\* a / b on integers, |a| < 2^30, 0 < |b| < 2^21 (true division)
FDivInt(a, b) ==
  LET num == List([i \in 1..(DivShiftLimbs + 3) |->
                IF i <= DivShiftLimbs THEN 0
                ELSE (Abs(a) \div Pow2(LimbBits * (i - DivShiftLimbs - 1))) % LimbBase])
      qr  == LongDiv(num, Len(num), 0, Abs(b))
      r   == RoundToDouble(qr[1], qr[2] # 0, 0 - LimbBits * DivShiftLimbs)
  IN  [neg |-> (a < 0) # (b < 0), m |-> r.m, e |-> r.e]

\* the integer part of the magnitude of a double (below 2^31)
FloorInt(x) ==
  IF x.e >= 0 THEN LimbsNat(x.m, 1) * Pow2(x.e)
  ELSE IF 0 - x.e >= MantLimbs * LimbBits THEN 0
  ELSE LimbsNat(ShiftRight(x.m, 0 - x.e), 1)

\* the magnitude of the double x has a fractional part
HasFraction(x) == x.e < 0 /\ LowBitsSet(x.m, Min(0 - x.e, MantLimbs * LimbBits))

\* int(x): truncation toward zero
ToInt(x) == IF x.neg THEN 0 - FloorInt(x) ELSE FloorInt(x)

\* int(np.floor(x)): rounding toward minus infinity
NpFloor(x) ==
  IF x.neg THEN 0 - (FloorInt(x) + (IF HasFraction(x) THEN 1 ELSE 0)) ELSE FloorInt(x)

\* x < n for a double x and an integer n
FLessInt(x, n) ==
  IF x.neg THEN n > 0 - FloorInt(x) \/ (n = 0 - FloorInt(x) /\ HasFraction(x))
  ELSE FloorInt(x) < n

\* the double x is exactly the integer n
FIsInt(x, n) ==
  /\ FloorInt(x) = Abs(n)
  /\ ~HasFraction(x)
  /\ (n # 0 => x.neg = (n < 0))

\* a // b on integers, b # 0: the quotient rounded toward minus infinity
FloorDiv(a, b) == IF b > 0 THEN a \div b ELSE (0 - a) \div (0 - b)

(***************************************************************************)
(* Program data and constraints.                                           *)
(***************************************************************************)
\* capacity, truck_size, safety_stock as both sources set them
PlantCapacity == 150000

TruckSize == 10000

SafetyStock == 5000

\* synthetic_demand["Week"] is [1, 2, 3, 4]
NumWeeks == 4

\* the components of a demand vector: North_Regular, North_Diet, South_Regular, South_Diet
NumSkus == 4

\* the week whose policy favours the North DC
PeakWeek == 3

\* the week of the demonstration violation, and its component (enumerate index)
ViolationWeek == 2

NorthDietIndex == 1

\* app2.py ships safety_stock - 1000 in the forced violation
ForcedViolationGap == 1000

\* the demand values a component is drawn from: the first MaxDemandLevel of these
DemandLevels == <<0, 3000, 10000, 25000, 60000, 100000, 7000, 130000>>

MaxDemandLevel == 6

DemandValues == {DemandLevels[k] : k \in 1..Min(MaxDemandLevel, Len(DemandLevels))}

\* <<capacity, truck_size, safety_stock>> passed to the functions of app.py
ConstraintSets ==
  { <<PlantCapacity, TruckSize, SafetyStock>>,
    <<40000, TruckSize, SafetyStock>>,
    <<PlantCapacity, TruckSize, 0>>,
    <<60000, 4000, 6000>> }

\* the values a component of a malformed demand vector is drawn from
MalformedDemandValues == {-25000, -3000, 0, 10000, 100000}

\* <<capacity, truck_size, safety_stock>> of the malformed runs of app.py: the
\* source's own, no capacity, and a negative truck size
MalformedConstraintSets ==
  { <<PlantCapacity, TruckSize, SafetyStock>>,
    <<0, TruckSize, SafetyStock>>,
    <<PlantCapacity, 0 - TruckSize, SafetyStock>> }

Skus == 1..NumSkus

Unbound == "unbound"

(***************************************************************************)
(* State: the names of the loop of app.py (lines 86-117); app2.py (lines   *)
(* 99-130) spells some differently (alloc, remark, violation_notes,        *)
(* fulfillment_pct).                                                       *)
(*   variant            the source being run, "app" or "app2"              *)
(*   capacity, truck_size, safety_stock   the constraints                  *)
(*   week, demand_vec   the row                                            *)
(*   pc                 the stage of the loop body about to run            *)
(*   allocation, tradeoff_msg, reason     results of the allocation        *)
(*   shipments, violation_reasons         results of the shipment rounding *)
(*   fulfilled, fulfill_pct (a double), violation_flag                     *)
(*   detailed_analysis  the entry the iteration appends                    *)
(* A local is Unbound until the stage that assigns it has run.             *)
(***************************************************************************)
VARIABLES variant, capacity, truck_size, safety_stock, week, demand_vec, pc,
          allocation, tradeoff_msg, reason, shipments, violation_reasons,
          fulfilled, fulfill_pct, violation_flag, detailed_analysis

vars == <<variant, capacity, truck_size, safety_stock, week, demand_vec, pc,
          allocation, tradeoff_msg, reason, shipments, violation_reasons,
          fulfilled, fulfill_pct, violation_flag, detailed_analysis>>

\* Python sum() of a 4-component list
Sum(v) == v[1] + v[2] + v[3] + v[4]

\* int(min(n, f)) for an integer n and a double f: min keeps n unless f < n
IntMin(n, f) == IF FLessInt(f, n) THEN ToInt(f) ELSE n

\* int(x - k / 4) for integers x, k: quarters are exact doubles, int() truncates toward zero
IntMinusQuarters(x, k) ==
  LET q == 4 * x - k
  IN  IF q >= 0 THEN q \div 4 ELSE 0 - ((0 - q) \div 4)

\* the literals 1.05, 0.95, 0.9 as doubles
north_priority == FDivInt(105, 100)

south_priority == FDivInt(95, 100)

severe_discount == FDivInt(9, 10)

(***************************************************************************)
(* Allocation engine.  A narrative is <<text, numbers it quotes>>.         *)
(***************************************************************************)
\* app.py lines 39-50: the peak-week allocation
peak_allocation(dv, scaling, cap, ss) ==
  LET priority == <<north_priority, north_priority, south_priority, south_priority>>
      capped   == List([i \in Skus |->
                    IntMin(dv[i], FMul(FMul(FromInt(dv[i]), scaling), priority[i]))])
      total_allocated == Sum(capped)
  IN  IF total_allocated > cap
      THEN List([i \in Skus |-> Max(ss, IntMinusQuarters(capped[i], total_allocated - cap))])
      ELSE capped

\* app.py lines 53-59: <<allocation, TRUE when the severe branch was taken>>
standard_allocation(dv, scaling, cap, ss) ==
  LET floored == List([i \in Skus |-> Max(ss, ToInt(FMul(FromInt(dv[i]), scaling)))])
  IN  IF Sum(floored) > cap
      THEN <<List([i \in Skus |->
                ToInt(FMul(FMul(FromInt(dv[i]), scaling), severe_discount))]), TRUE>>
      ELSE <<floored, FALSE>>

\* allocate_production_with_tradeoffs with the capacity test made strict (< for <=)
allocate_production_strict(dv, wk, cap, ss) ==
  LET total_demand == Sum(dv)
      north_total  == dv[1] + dv[2]
      south_total  == dv[3] + dv[4]
      scaling      == FDivInt(cap, total_demand)
      std          == standard_allocation(dv, scaling, cap, ss)
      shortfall    == <<"Demand exceeded capacity by", total_demand - cap>>
  IN  IF total_demand < cap THEN <<dv, <<"-">>, <<"Full demand met">>>>
      ELSE IF wk = PeakWeek
      THEN << peak_allocation(dv, scaling, cap, ss),
              <<"Peak demand week: North DC prioritized", north_total, south_total>>,
              shortfall >>
      ELSE IF std[2]
      THEN << std[1],
              <<"Severe capacity constraint: Equal reduction", total_demand, cap>>,
              shortfall >>
      ELSE << std[1],
              <<"Capacity limited: Proportional allocation", north_total, south_total>>,
              shortfall >>

\* app.py: returns <<allocation, trade_off, reason>>
allocate_production_with_tradeoffs(dv, wk, cap, ss) ==
  LET total_demand == Sum(dv)
      north_total  == dv[1] + dv[2]
      south_total  == dv[3] + dv[4]
      scaling      == FDivInt(cap, total_demand)
      std          == standard_allocation(dv, scaling, cap, ss)
      shortfall    == <<"Demand exceeded capacity by", total_demand - cap>>
  IN  IF total_demand <= cap THEN <<dv, <<"-">>, <<"Full demand met">>>>
      ELSE IF wk = PeakWeek
      THEN << peak_allocation(dv, scaling, cap, ss),
              <<"Peak demand week: North DC prioritized", north_total, south_total>>,
              shortfall >>
      ELSE IF std[2]
      THEN << std[1],
              <<"Severe capacity constraint: Equal reduction", total_demand, cap>>,
              shortfall >>
      ELSE << std[1],
              <<"Capacity limited: Proportional allocation", north_total, south_total>>,
              shortfall >>

\* app2.py lines 39-52: the peak-week allocation, from the module's capacity, safety_stock
peak_allocation2(dv, scale) ==
  LET priority == <<north_priority, north_priority, south_priority, south_priority>>
      capped   == List([i \in Skus |->
                    IntMin(dv[i], FMul(FMul(FromInt(dv[i]), scale), priority[i]))])
      total_alloc == Sum(capped)
  IN  IF total_alloc > capacity
      THEN List([i \in Skus |->
             Max(safety_stock, IntMinusQuarters(capped[i], total_alloc - capacity))])
      ELSE capped

\* app2.py lines 56-63: <<allocation, TRUE when the severe branch was taken>>
standard_allocation2(dv, scale) ==
  LET floored == List([i \in Skus |->
                   Max(safety_stock, ToInt(FMul(FromInt(dv[i]), scale)))])
  IN  IF Sum(floored) > capacity
      THEN <<List([i \in Skus |->
                ToInt(FMul(FMul(FromInt(dv[i]), scale), severe_discount))]), TRUE>>
      ELSE <<floored, FALSE>>

\* app2.py: returns <<allocation, tradeoff, remark>>
allocate_production(dv, wk) ==
  LET total_demand == Sum(dv)
      north_total  == dv[1] + dv[2]
      south_total  == dv[3] + dv[4]
      scale        == FDivInt(capacity, total_demand)
      std          == standard_allocation2(dv, scale)
      shortfall    == <<"Capacity shortfall:",
                        IF total_demand > capacity THEN total_demand - capacity ELSE 0>>
  IN  IF total_demand <= capacity THEN <<dv, <<"-">>, <<"Full demand met">>>>
      ELSE IF wk = PeakWeek
      THEN << peak_allocation2(dv, scale),
              <<"Peak demand week: North DC prioritized", north_total, south_total>>,
              shortfall >>
      ELSE IF std[2]
      THEN << std[1],
              <<"Severe constraint: Uniform reduction", total_demand, capacity>>,
              shortfall >>
      ELSE << std[1],
              <<"Capacity constrained: Proportional scale-down", north_total, south_total>>,
              shortfall >>

(***************************************************************************)
(* Shipment engine.  i is the enumerate index of a component (from 0).  A  *)
(* violation note is [i |-> index, qty |-> shipped quantity,               *)
(* floor |-> safety stock], what its text names.                           *)
(***************************************************************************)
\* the notes of the components that have one, in component order
RECURSIVE NotesFrom(_, _, _, _)
NotesFrom(p, noted, qty, ss) ==
  IF p > NumSkus THEN <<>>
  ELSE (IF noted[p] THEN <<[i |-> p - 1, qty |-> qty[p], floor |-> ss]>> ELSE <<>>)
       \o NotesFrom(p + 1, noted, qty, ss)

\* forced_violation with the week test dropped
forced_violation_any_week(i, wk) == i = NorthDietIndex

\* app.py line 71: the component whose safety floor week 2 bypasses
forced_violation(i, wk) == wk = ViolationWeek /\ i = NorthDietIndex

\* shipment_qty with the safety-stock floor dropped on the normal path
shipment_qty_unfloored(alloc, d, i, ss, truck_sz, wk) ==
  IF d = 0 THEN 0
  ELSE IF forced_violation(i, wk) THEN truck_sz * NpFloor(FDivInt(alloc, truck_sz))
  ELSE FloorDiv(alloc, truck_sz) * truck_sz

\* shipment_qty with the zero-demand test dropped
shipment_qty_unguarded(alloc, d, i, ss, truck_sz, wk) ==
  IF forced_violation(i, wk) THEN truck_sz * NpFloor(FDivInt(alloc, truck_sz))
  ELSE Max(FloorDiv(alloc, truck_sz) * truck_sz, ss)

\* app.py lines 67-78: the quantity the loop appends for one component
shipment_qty(alloc, d, i, ss, truck_sz, wk) ==
  IF d = 0 THEN 0
  ELSE IF forced_violation(i, wk) THEN truck_sz * NpFloor(FDivInt(alloc, truck_sz))
  ELSE Max(FloorDiv(alloc, truck_sz) * truck_sz, ss)

\* app.py: returns <<rounded_shipments, violation_reasons>>
shipment_rounding_with_violations(alloc, ss, truck_sz, dv, wk) ==
  LET rounded_shipments ==
        List([p \in Skus |-> shipment_qty(alloc[p], dv[p], p - 1, ss, truck_sz, wk)])
      noted ==
        List([p \in Skus |->
          dv[p] # 0 /\ forced_violation(p - 1, wk) /\ rounded_shipments[p] < ss])
  IN  <<rounded_shipments, NotesFrom(1, noted, rounded_shipments, ss)>>

\* app2.py lines 72-82: the quantity the loop appends for one component
ship_qty(alloc, demand_qty, i, wk) ==
  LET floored == Max(FloorDiv(alloc, truck_size) * truck_size, safety_stock)
  IN  IF demand_qty = 0 THEN 0
      ELSE IF wk = ViolationWeek /\ i = NorthDietIndex /\ floored > safety_stock
      THEN safety_stock - ForcedViolationGap
      ELSE floored

\* app2.py: returns <<shipments, violations>>
shipment_rounding(alloc, dv, wk) ==
  LET shipped == List([p \in Skus |-> ship_qty(alloc[p], dv[p], p - 1, wk)])
      noted   == List([p \in Skus |-> dv[p] # 0 /\ shipped[p] < safety_stock])
  IN  <<shipped, NotesFrom(1, noted, shipped, safety_stock)>>

(***************************************************************************)
(* The per-week loop body: one row of the demand table through the three   *)
(* stages.  pc is the stage about to run.                                  *)
(***************************************************************************)
\* Fulfilled with the cap at demand dropped
Fulfilled_uncapped(ship, dv) == ship[1] + ship[2] + ship[3] + ship[4]

\* Fulfilled with max for min
Fulfilled_overcounted(ship, dv) ==
  Max(ship[1], dv[1]) + Max(ship[2], dv[2]) + Max(ship[3], dv[3]) + Max(ship[4], dv[4])

\* sum(min(s, d) for s, d in zip(shipments, demand_vec))
Fulfilled(ship, dv) ==
  Min(ship[1], dv[1]) + Min(ship[2], dv[2]) + Min(ship[3], dv[3]) + Min(ship[4], dv[4])

Init ==
  /\ variant \in {"app", "app2"}
  /\ \E c \in ConstraintSets :
       /\ variant = "app2" => c = <<PlantCapacity, TruckSize, SafetyStock>>
       /\ capacity = c[1]
       /\ truck_size = c[2]
       /\ safety_stock = c[3]
  /\ week \in 1..NumWeeks
  /\ demand_vec \in [Skus -> DemandValues]
  /\ pc = "allocate"
  /\ allocation = Unbound
  /\ tradeoff_msg = Unbound
  /\ reason = Unbound
  /\ shipments = Unbound
  /\ violation_reasons = Unbound
  /\ fulfilled = Unbound
  /\ fulfill_pct = Unbound
  /\ violation_flag = Unbound
  /\ detailed_analysis = Unbound

\* negative demand, or capacity or truck size not positive
Malformed ==
  \/ \E p \in Skus : demand_vec[p] < 0
  \/ capacity <= 0
  \/ truck_size <= 0

\* a row the loop is given with malformed input; neither source validates its
\* input, so the stages below run on it as on any other row
InitMalformed ==
  /\ variant \in {"app", "app2"}
  /\ \E c \in MalformedConstraintSets :
       /\ variant = "app2" => c = <<PlantCapacity, TruckSize, SafetyStock>>
       /\ capacity = c[1]
       /\ truck_size = c[2]
       /\ safety_stock = c[3]
  /\ week \in 1..NumWeeks
  /\ demand_vec \in [Skus -> MalformedDemandValues]
  /\ Malformed
  /\ pc = "allocate"
  /\ allocation = Unbound
  /\ tradeoff_msg = Unbound
  /\ reason = Unbound
  /\ shipments = Unbound
  /\ violation_reasons = Unbound
  /\ fulfilled = Unbound
  /\ fulfill_pct = Unbound
  /\ violation_flag = Unbound
  /\ detailed_analysis = Unbound

\* app.py line 91
AllocateApp ==
  /\ pc = "allocate"
  /\ variant = "app"
  /\ \E r \in {allocate_production_with_tradeoffs(demand_vec, week, capacity, safety_stock)} :
       /\ allocation' = r[1]
       /\ tradeoff_msg' = r[2]
       /\ reason' = r[3]
  /\ pc' = "ship"
  /\ UNCHANGED <<variant, capacity, truck_size, safety_stock, week, demand_vec, shipments,
                 violation_reasons, fulfilled, fulfill_pct, violation_flag,
                 detailed_analysis>>

\* app2.py line 104
AllocateApp2 ==
  /\ pc = "allocate"
  /\ variant = "app2"
  /\ \E r \in {allocate_production(demand_vec, week)} :
       /\ allocation' = r[1]
       /\ tradeoff_msg' = r[2]
       /\ reason' = r[3]
  /\ pc' = "ship"
  /\ UNCHANGED <<variant, capacity, truck_size, safety_stock, week, demand_vec, shipments,
                 violation_reasons, fulfilled, fulfill_pct, violation_flag,
                 detailed_analysis>>

\* app.py line 92
ShipApp ==
  /\ pc = "ship"
  /\ variant = "app"
  /\ \E r \in {shipment_rounding_with_violations(allocation, safety_stock, truck_size,
                                                  demand_vec, week)} :
       /\ shipments' = r[1]
       /\ violation_reasons' = r[2]
  /\ pc' = "analyze"
  /\ UNCHANGED <<variant, capacity, truck_size, safety_stock, week, demand_vec, allocation,
                 tradeoff_msg, reason, fulfilled, fulfill_pct, violation_flag,
                 detailed_analysis>>

\* app2.py line 105
ShipApp2 ==
  /\ pc = "ship"
  /\ variant = "app2"
  /\ \E r \in {shipment_rounding(allocation, demand_vec, week)} :
       /\ shipments' = r[1]
       /\ violation_reasons' = r[2]
  /\ pc' = "analyze"
  /\ UNCHANGED <<variant, capacity, truck_size, safety_stock, week, demand_vec, allocation,
                 tradeoff_msg, reason, fulfilled, fulfill_pct, violation_flag,
                 detailed_analysis>>

\* app.py lines 94-117: fulfilment, violation flag, the week's detailed_analysis entry
AnalyzeApp ==
  /\ pc = "analyze"
  /\ variant = "app"
  /\ LET total_week_demand == Sum(demand_vec)
         f == Fulfilled(shipments, demand_vec)
     IN  /\ fulfilled' = f
         /\ fulfill_pct' = IF total_week_demand > 0
                           THEN FMul(FDivInt(f, total_week_demand), FromInt(100))
                           ELSE FromInt(100)
         /\ violation_flag' = \E p \in Skus : shipments[p] < safety_stock /\ demand_vec[p] > 0
         /\ detailed_analysis' =
              [ Week |-> week,
                Total_Demand |-> total_week_demand,
                Total_Produced |-> Sum(allocation),
                Total_Shipped |-> Sum(shipments),
                Unfulfilled |-> total_week_demand - f,
                Safety_Violation |-> violation_reasons,
                \* demand_vec + demand_vec[1]: the element added to every component
                North_DC_Demand |-> [p \in Skus |-> demand_vec[p] + demand_vec[2]],
                South_DC_Demand |-> demand_vec[3] + demand_vec[4] ]
  /\ pc' = "done"
  /\ UNCHANGED <<variant, capacity, truck_size, safety_stock, week, demand_vec, allocation,
                 tradeoff_msg, reason, shipments, violation_reasons>>

\* app2.py lines 107-130
AnalyzeApp2 ==
  /\ pc = "analyze"
  /\ variant = "app2"
  /\ LET total_demand == Sum(demand_vec)
         f == Fulfilled(shipments, demand_vec)
     IN  /\ fulfilled' = f
         /\ fulfill_pct' = IF total_demand # 0
                           THEN FDivInt(100 * f, total_demand)
                           ELSE FromInt(100)
         /\ violation_flag' = (Len(violation_reasons) > 0)
         /\ detailed_analysis' =
              [ Week |-> week,
                Total_Demand |-> total_demand,
                Total_Produced |-> Sum(allocation),
                Total_Shipped |-> Sum(shipments),
                Unfulfilled |-> total_demand - f,
                Safety_Violation |-> violation_reasons,
                North_DC_Demand |-> demand_vec[1] + demand_vec[2],
                South_DC_Demand |-> demand_vec[3] + demand_vec[4] ]
  /\ pc' = "done"
  /\ UNCHANGED <<variant, capacity, truck_size, safety_stock, week, demand_vec, allocation,
                 tradeoff_msg, reason, shipments, violation_reasons>>

Next ==
  \/ AllocateApp
  \/ AllocateApp2
  \/ ShipApp
  \/ ShipApp2
  \/ AnalyzeApp
  \/ AnalyzeApp2

Spec == Init /\ [][Next]_vars

SpecMalformed == InitMalformed /\ [][Next]_vars

(***************************************************************************)
(* Properties.  The stage predicates say which results of the row exist.   *)
(***************************************************************************)
Allocated == pc \in {"ship", "analyze", "done"}

Shipped == pc \in {"analyze", "done"}

Analyzed == pc = "done"

WithinCapacity == Sum(demand_vec) <= capacity

\* position in a 4-tuple of the component with enumerate index NorthDietIndex
NorthDiet == NorthDietIndex + 1

\* fulfill_pct is exactly 100
FullyFulfilled == FIsInt(fulfill_pct, 100)

\* C1: whenever the total demand of the row is at most capacity, on the peak
\* week as on any other, the allocation is the demand vector itself, the
\* trade-off narrative is "-" and the note is "Full demand met".
C1_FullDemandMet ==
  (Allocated /\ WithinCapacity) =>
    /\ allocation = demand_vec
    /\ tradeoff_msg = <<"-">>
    /\ reason = <<"Full demand met">>

\* a peak-week row whose total demand is exactly capacity, allocated in full
C1_Witness ==
  /\ pc = "ship"
  /\ week = PeakWeek
  /\ Sum(demand_vec) = capacity
  /\ allocation = demand_vec

\* C2 as claimed: whenever the total demand is at most capacity, the
\* fulfilment percentage is exactly 100.
C2_Original == (Analyzed /\ WithinCapacity) => FullyFulfilled

\* C2 as amended: with total demand at most capacity, the fulfilment
\* percentage is exactly 100 precisely when every component's shipment
\* reaches its demand; outside the violation week that is precisely when
\* every demand component is a multiple of truck_size or at most safety_stock.
C2_FulfilmentWithinCapacity ==
  (Analyzed /\ WithinCapacity) =>
    /\ FullyFulfilled <=> (\A p \in Skus : shipments[p] >= demand_vec[p])
    /\ week # ViolationWeek =>
         (FullyFulfilled <=>
            \A p \in Skus : demand_vec[p] % truck_size = 0 \/ demand_vec[p] <= safety_stock)

\* a row within capacity, off the violation week, fully fulfilled although
\* one component needs whole trucks and another is lifted by the floor
C2_Witness ==
  /\ Analyzed
  /\ WithinCapacity
  /\ week # ViolationWeek
  /\ FullyFulfilled
  /\ \E p, q \in Skus :
       /\ demand_vec[p] >= truck_size
       /\ demand_vec[q] > 0
       /\ demand_vec[q] < safety_stock

\* C3 as claimed: whenever the total demand is at most capacity, the
\* violation week included, there is no violation note and the flag is off.
C3_Original ==
  (Analyzed /\ WithinCapacity) => (violation_reasons = <<>> /\ ~violation_flag)

\* C3 as amended: with total demand at most capacity, a violation note
\* exists and the flag is set only on the violation week, and a note names
\* only the forced-bypass component (North Diet).
C3_NoViolationWithinCapacity ==
  (Analyzed /\ WithinCapacity) =>
    /\ \A k \in 1..Len(violation_reasons) :
         week = ViolationWeek /\ violation_reasons[k].i = NorthDietIndex
    /\ violation_flag => week = ViolationWeek

\* a row within capacity off the violation week whose North Diet demand is
\* below a truck and lifted to the floor: no note, no flag
C3_Witness ==
  /\ Analyzed
  /\ WithinCapacity
  /\ week # ViolationWeek
  /\ demand_vec[NorthDiet] > 0
  /\ demand_vec[NorthDiet] < truck_size
  /\ shipments[NorthDiet] = safety_stock
  /\ violation_reasons = <<>>
  /\ ~violation_flag

\* C4 as claimed: off the violation week the shipments never total more
\* than the allocation.
C4_Original ==
  (Shipped /\ week # ViolationWeek) => Sum(shipments) <= Sum(allocation)

\* C5 as claimed: on the peak week with total demand above capacity no
\* component is allocated more than its demand.
C5_Original ==
  (Allocated /\ week = PeakWeek /\ ~WithinCapacity) =>
    \A p \in Skus : allocation[p] <= demand_vec[p]

\* C6 as claimed: the allocation never totals more than capacity.
C6_Original == Allocated => Sum(allocation) <= capacity

\* C7: a component with positive demand is shipped at least safety_stock,
\* unless it is the forced-violation component (violation week, North Diet).
C7_FloorGuarantee ==
  Shipped =>
    \A p \in Skus :
      (demand_vec[p] > 0 /\ shipments[p] < safety_stock) =>
        (week = ViolationWeek /\ p = NorthDiet)

\* on the violation week a component other than North Diet, allocated less
\* than the floor, is shipped the floor
C7_Witness ==
  /\ Shipped
  /\ week = ViolationWeek
  /\ \E p \in Skus \ {NorthDiet} :
       /\ demand_vec[p] > 0
       /\ allocation[p] < safety_stock
       /\ shipments[p] = safety_stock

\* C8 as claimed: on the violation week, North Diet with positive demand, a
\* positive safety stock and an allocation below one truck is shipped the
\* truck-quantized quantity (zero) and the note list is not empty.
C8_Original ==
  ( /\ Shipped
    /\ week = ViolationWeek
    /\ demand_vec[NorthDiet] > 0
    /\ safety_stock > 0
    /\ allocation[NorthDiet] < truck_size ) =>
    /\ shipments[NorthDiet] = (allocation[NorthDiet] \div truck_size) * truck_size
    /\ violation_reasons # <<>>

\* C9: a component with zero demand is shipped nothing and has no note, and
\* the flag, when set, is owed to a component with positive demand.
C9_ZeroDemand ==
  /\ Shipped =>
       \A p \in Skus :
         demand_vec[p] = 0 =>
           /\ shipments[p] = 0
           /\ \A k \in 1..Len(violation_reasons) : violation_reasons[k].i # p - 1
  /\ (Analyzed /\ violation_flag) =>
       \E p \in Skus : demand_vec[p] > 0 /\ shipments[p] < safety_stock

\* the violation week with no North Diet demand, other demand and a positive
\* safety stock: nothing shipped to North Diet, no flag
C9_Witness ==
  /\ Analyzed
  /\ week = ViolationWeek
  /\ demand_vec[NorthDiet] = 0
  /\ Sum(demand_vec) > 0
  /\ safety_stock > 0
  /\ shipments[NorthDiet] = 0
  /\ ~violation_flag

\* C10 as claimed: every shipped quantity is non-negative and is a multiple
\* of truck_size or exactly safety_stock.
C10_Original ==
  Shipped =>
    \A p \in Skus :
      /\ shipments[p] >= 0
      /\ shipments[p] % truck_size = 0 \/ shipments[p] = safety_stock

\* the double fulfill_pct is in [0, 100]
PctInRange ==
  /\ ~fulfill_pct.neg
  /\ FloorInt(fulfill_pct) < 100 \/ FIsInt(fulfill_pct, 100)

\* C11: for every week and every non-negative demand vector, under every
\* constraint set, the fulfilled quantity lies between 0 and the total demand,
\* so the fulfilment percentage is in [0, 100] and
\* the unfulfilled quantity of the week's entry is not negative; when the total
\* demand is 0 the percentage is exactly 100.
C11_FulfilmentRange ==
  Analyzed =>
    /\ 0 <= fulfilled
    /\ fulfilled <= Sum(demand_vec)
    /\ PctInRange
    /\ detailed_analysis.Unfulfilled = Sum(demand_vec) - fulfilled
    /\ detailed_analysis.Unfulfilled >= 0
    /\ (Sum(demand_vec) = 0 => FullyFulfilled)

\* a week over capacity whose fulfilment is strictly inside the range
C11_Witness ==
  /\ Analyzed
  /\ Sum(demand_vec) > capacity
  /\ 0 < fulfilled
  /\ fulfilled < Sum(demand_vec)
  /\ ToInt(fulfill_pct) > 0
  /\ ToInt(fulfill_pct) < 100
  /\ detailed_analysis.Unfulfilled > 0

\* C12: when the input is malformed (some demand component negative, or
\* capacity not positive, or truck size not positive) the engine stops with a
\* configuration error and produces no allocation and no shipment; in
\* particular no allocation it returns has a negative component.
C12_Original ==
  Malformed =>
    /\ ~Allocated
    /\ ~Shipped
    /\ Allocated => \A p \in Skus : allocation[p] >= 0

\* the allocation came from the standard policy's fallback branch (app.py line 56, app2.py line 60)
FallbackBranch ==
  /\ Allocated
  /\ week # PeakWeek
  /\ tradeoff_msg[1] \in {"Severe capacity constraint: Equal reduction",
                          "Severe constraint: Uniform reduction"}

\* some component with demand is allocated less than the safety stock
AllocatedBelowFloor == \E p \in Skus : demand_vec[p] > 0 /\ allocation[p] < safety_stock

\* C13: whenever the standard policy (week other than 3) takes its fallback
\* branch and some component with positive demand is thereby allocated less
\* than the safety stock, the shipment stage run on that allocation reports the
\* breach: the week's list of violation notes is not empty.
C13_Original ==
  (Shipped /\ FallbackBranch /\ AllocatedBelowFloor) => Len(violation_reasons) > 0

====
